---------------------------- MODULE Spec2Model ----------------------------
(***************************************************************************)
(* Clock-accurate model of valentyusb's eptri CPU interface                *)
(* (TriEndpointInterface, SetupHandler, InHandler, OutHandler).            *)
(*                                                                         *)
(* A state is one clock cycle: the registers of the design together with  *)
(* the signals the transfer core (UsbTransfer) and the CSR bus present in  *)
(* that cycle.  One step is one rising clock edge: every synchronous       *)
(* statement of the design is applied, the transfer core moves on to the   *)
(* signals of the next cycle, and the CPU may complete one CSR bus write.  *)
(* The usb_12 and sys clock domains are taken to be the same clock.        *)
(***************************************************************************)
EXTENDS Integers, Sequences, FiniteSets, TLC

(***************************************************************************)
(* Bounds of the model.                                                    *)
(***************************************************************************)
MaxEndp == 1
MaxTokens == 3
MaxInLen == 2
MaxOutLen == 1
MaxErrors == 1
MaxResets == 1

(***************************************************************************)
(* Program constants.                                                      *)
(***************************************************************************)
NumEndpoints == 16
CounterWidth == 8
SetupFifoDepth == 10
InFifoDepth == 128
OutFifoDepth == 128
DtbsReset == 65535

Endps == 0..MaxEndp

\* The token kinds of the transfer core (PID.OUT, PID.SOF, PID.IN, PID.SETUP);
\* "NONE" is the reset value of usb_core.tok, which is no token's PID.
Tokens == {"OUT", "SOF", "IN", "SETUP"}

\* SETUP packets the host may send: 8 payload bytes followed by the CRC16.
\*   1: GET_DESCRIPTOR(device), wLength = 18   (IN data stage)
\*   2: SET_ADDRESS(5), wLength = 0            (no data stage, OUT direction)
\*   3: bmRequestType 0x80, wLength = 0        (no data stage, IN direction)
\*   4: SET_DESCRIPTOR, wLength = 0x0100       (OUT data stage)
SetupPackets ==
    << <<128, 6, 0, 1, 0, 0, 18, 0, 224, 244>>,
       <<0, 5, 5, 0, 0, 0, 0, 0, 234, 161>>,
       <<128, 0, 0, 0, 0, 0, 0, 0, 183, 148>>,
       <<0, 7, 0, 1, 0, 0, 0, 1, 53, 52>> >>

SetupLen == 10

\* Bytes the CPU writes to IN_DATA and bytes the host sends in OUT packets.
InBytes == {17, 34}
OutBytes == {51}

\* Values the CPU writes to ENABLE_OUT0 / ENABLE_IN0.
EnableVals == {0, 255}
AddressVals == {5, 9}

\* Workloads: which registers the firmware writes, which tokens the host
\* sends and whether protocol errors and bus resets occur in a run.  A run
\* keeps to one workload.
Workloads == {"control", "errors", "resets", "in", "out", "bulk", "stall",
              "getdesc", "toggle", "address", "outerr"}

CpuRegs(w) ==
    CASE w = "control" -> {"setup_ctrl"}
      [] w = "errors" -> {}
      [] w = "resets" -> {"in_data"}
      [] w = "in" -> {"in_data", "in_ctrl"}
      [] w = "out" -> {"out_ctrl"}
      [] w = "bulk" -> {"in_ctrl", "out_ctrl"}
      [] w = "stall" -> {"enable_out0", "enable_in0"}
      [] w = "getdesc" -> {"setup_ctrl", "in_data", "in_ctrl"}
      [] w = "toggle" -> {"in_ctrl"}
      [] w = "live" -> {}
      [] w = "address" -> {"address"}
      [] w = "outerr" -> {"out_ctrl"}

HostTokens(w) ==
    CASE w = "control" -> {"SETUP", "IN", "OUT", "SOF"}
      [] w = "errors" -> {"SETUP", "IN", "OUT", "SOF"}
      [] w = "resets" -> {"SETUP", "OUT"}
      [] w = "in" -> {"IN"}
      [] w = "out" -> {"OUT", "SETUP"}
      [] w = "bulk" -> {"IN", "OUT"}
      [] w = "stall" -> {"IN", "OUT"}
      [] w = "getdesc" -> {"SETUP", "IN", "OUT"}
      [] w = "toggle" -> {"SETUP", "IN"}
      [] w = "live" -> {"SETUP", "IN"}
      [] w = "address" -> {"OUT"}
      [] w = "outerr" -> {"OUT", "SETUP"}

\* The SETUP packets (indices into SetupPackets) the host sends.
HostSetups(w) ==
    CASE w \in {"control", "errors"} -> 1..Len(SetupPackets)
      [] w = "resets" -> {1}
      [] w = "out" -> {1, 4}
      [] w \in {"getdesc", "toggle", "live", "outerr"} -> {1}
      [] OTHER -> {}

\* The number of tokens the host sends in a run.  The GET_DESCRIPTOR
\* transfer takes four, and one more for an IN token that is NAKed.
TokenBudget(w) == IF w = "getdesc" THEN MaxTokens + 2 ELSE MaxTokens

\* In the workload "live" the host never stops sending tokens, so they are
\* not counted, and it completes every data packet it starts.
CountsTokens(w) == w # "live"
HostAborts(w) == w # "live"

HostErrors(w) == w \in {"errors", "outerr"}
HostResets(w) == w \in {"resets", "address"}

\* The values of ENABLE_OUT0 and ENABLE_IN0 the firmware has configured
\* when the run starts.
EnableOut0Init(w) ==
    CASE w \in {"control", "errors"} -> EnableVals
      [] w \in {"out", "bulk", "resets", "getdesc", "outerr"} -> {255}
      [] OTHER -> {0}

EnableIn0Init(w) ==
    CASE w \in {"control", "in", "bulk", "getdesc", "toggle"} -> {255}
      [] OTHER -> {0}

VARIABLES
    \* TriEndpointInterface
    stage, setup_data_byte, setup_is_in, setup_data_stage,
    invalid_states, tok_waits, error_count,
    \* CSR storage and the write strobe of the current cycle
    csr_re, enable_out0, enable_out1, enable_in0, enable_in1,
    in_data, in_ctrl, out_ctrl, setup_ctrl,
    \* SetupHandler
    setup_buf, setup_buf_reset, check_reset, setup_epno, data_bytes, have_data_stage,
    \* InHandler
    dtbs, queued, in_buf,
    \* OutHandler
    out_buf, have_data, out_epno, is_idle,
    \* Transfer core: latched token, the event it signals in this cycle
    ev, usb_tok, usb_endp, usb_payload, resp, pkt, idx, n_tokens, n_resets,
    \* The workload of the run and the observers
    workload, in_tags, last_in, out_drained, ctl_in,
    \* ADDRESS register, its write strobe, and the transfer core's addr
    address, address_re, addr

engine_vars == <<stage, setup_data_byte, setup_is_in, setup_data_stage,
                 invalid_states, tok_waits, error_count>>
csr_vars == <<csr_re, enable_out0, enable_out1, enable_in0, enable_in1,
              in_data, in_ctrl, out_ctrl, setup_ctrl>>
setup_vars == <<setup_buf, setup_buf_reset, check_reset, setup_epno, data_bytes,
                have_data_stage>>
in_vars == <<dtbs, queued, in_buf>>
out_vars == <<out_buf, have_data, out_epno, is_idle>>
core_vars == <<ev, usb_tok, usb_endp, usb_payload, resp, pkt, idx, n_tokens,
               n_resets>>
obs_vars == <<workload, in_tags, last_in, out_drained, ctl_in>>
addr_vars == <<address, address_re, addr>>
vars == <<engine_vars, csr_vars, setup_vars, in_vars, out_vars, core_vars, obs_vars,
          addr_vars>>

(***************************************************************************)
(* Bit helpers on naturals.                                                *)
(***************************************************************************)
Pow2(n) == 2 ^ n
Bit(x, i) == (x \div Pow2(i)) % 2
SetBit(x, i) == IF Bit(x, i) = 1 THEN x ELSE x + Pow2(i)
FlipBit(x, i) == IF Bit(x, i) = 1 THEN x - Pow2(i) ELSE x + Pow2(i)
Inc(x) == (x + 1) % Pow2(CounterWidth)

(***************************************************************************)
(* migen's SyncFIFOBuffered: a SyncFIFO (mem) followed by an output        *)
(* register (readable, dout).                                              *)
(***************************************************************************)
EmptyFifo == [mem |-> <<>>, readable |-> FALSE, dout |-> 0]

FifoStep(f, we, din, re, rst, depth) ==
    IF rst
    THEN [mem |-> <<>>, readable |-> FALSE, dout |-> f.dout]
    ELSE LET inner_re == Len(f.mem) > 0 /\ (~f.readable \/ re)
             writable == Len(f.mem) < depth
             m1 == IF inner_re THEN Tail(f.mem) ELSE f.mem
             m2 == IF we /\ writable THEN Append(m1, din) ELSE m1
         IN  [mem |-> m2,
              readable |-> IF inner_re THEN TRUE
                           ELSE IF re THEN FALSE ELSE f.readable,
              dout |-> IF inner_re THEN Head(f.mem) ELSE f.dout]

FifoLevel(f) == Len(f.mem) + (IF f.readable THEN 1 ELSE 0)

\* The bytes a FIFO holds, oldest first.
FifoBytes(f) == IF f.readable THEN <<f.dout>> \o f.mem ELSE f.mem

(***************************************************************************)
(* Signals of the transfer core in the current cycle.                      *)
(***************************************************************************)
usb_start == ev = "start"
usb_idle == ev \in {"idle", "reset"}
usb_reset == ev = "reset"
usb_error == ev = "error"
usb_commit == ev = "commit"
usb_end == ev \in {"commit", "abort"}
usb_setup == ev = "commit" /\ usb_tok = "SETUP"
data_recv_put == ev = "put"

(***************************************************************************)
(* Stall policy.                                                           *)
(***************************************************************************)
\* A variant that interleaves the directions: bit 2 * endp + is_IN.
eps_idx_interleaved == 2 * usb_endp + (IF usb_tok = "IN" THEN 1 ELSE 0)

eps_idx == usb_endp + NumEndpoints * (IF usb_tok = "IN" THEN 1 ELSE 0)

\* A variant with the IN registers in the low half of the bitmap.
enable_in_first == <<enable_in0, enable_in1, enable_out0, enable_out1>>

\* Cat(enable_out0, enable_out1, enable_in0, enable_in1), least significant
\* byte first.
enable == <<enable_out0, enable_out1, enable_in0, enable_in1>>

\* Bit 0 of enable >> eps_idx, negated.
should_stall == Bit(enable[(eps_idx \div 8) + 1], eps_idx % 8) = 0

(***************************************************************************)
(* Handler responses.                                                      *)
(***************************************************************************)
epno == in_ctrl % 16
reset_fifo == Bit(in_ctrl, 4) = 1

\* A variant that answers for every endpoint while a packet is queued.
in_response_any_endpoint == queued

in_response == IF usb_endp = epno THEN queued ELSE FALSE

\* A variant that accepts OUT data again as soon as the OUT FIFO is empty.
out_response_auto == ~out_buf.readable

\* A variant that takes the have_data flag to be the occupancy of the OUT
\* FIFO.
out_response_fifo == out_buf.readable /\ Bit(out_ctrl, 1) = 1

out_response == have_data /\ Bit(out_ctrl, 1) = 1

\* A variant that looks at the inner FIFO and not at its output register.
setup_empty_inner == setup_buf.mem = <<>>

setup_empty == ~setup_buf.readable

in_dtb == Bit(dtbs, usb_endp) = 1

(***************************************************************************)
(* Outputs of the stage FSM towards the transfer core.                     *)
(***************************************************************************)
usb_sta ==
    CASE stage = "CHECK_TOK" ->
            IF usb_idle THEN FALSE
            ELSE IF usb_tok = "SETUP" THEN FALSE
            ELSE IF usb_tok \in {"IN", "OUT"} THEN should_stall
            ELSE FALSE
      [] stage = "SETUP" ->
            IF usb_setup /\ setup_data_stage
            THEN ~out_response /\ should_stall
            ELSE FALSE
      [] stage = "CONTROL_IN" ->
            usb_endp = 0 /\ usb_tok = "IN" /\ should_stall
      [] stage = "CONTROL_OUT" ->
            usb_endp = 0 /\ usb_tok = "OUT" /\ should_stall
      [] stage \in {"IN", "OUT"} -> should_stall
      [] OTHER -> FALSE

\* A variant whose data stage does not wait for the CPU to drain the SETUP
\* FIFO.
usb_arm_undrained ==
    CASE stage = "CHECK_TOK" ->
            IF usb_idle THEN FALSE
            ELSE IF usb_tok = "SETUP" THEN TRUE
            ELSE IF usb_tok = "IN" THEN in_response \/ should_stall
            ELSE IF usb_tok = "OUT" THEN out_response \/ should_stall
            ELSE FALSE
      [] stage = "SETUP" ->
            IF usb_setup /\ setup_data_stage
            THEN IF setup_is_in THEN in_response \/ should_stall
                 ELSE out_response \/ should_stall
            ELSE TRUE
      [] stage = "CONTROL_IN" ->
            IF usb_endp # 0 THEN FALSE
            ELSE IF usb_tok = "IN" THEN should_stall \/ in_response
            ELSE usb_tok = "OUT"
      [] stage = "CONTROL_OUT" ->
            IF usb_endp # 0 THEN FALSE
            ELSE IF usb_tok = "OUT" THEN should_stall \/ out_response
            ELSE IF usb_tok = "IN" THEN setup_empty
            ELSE FALSE
      [] stage \in {"WAIT_CONTROL_ACK_IN", "WAIT_CONTROL_ACK_OUT"} -> setup_empty
      [] stage = "IN" -> in_response \/ should_stall
      [] stage = "OUT" -> out_response \/ should_stall
      [] stage = "WAIT_DONE" -> TRUE
      [] OTHER -> FALSE

usb_arm ==
    CASE stage = "CHECK_TOK" ->
            IF usb_idle THEN FALSE
            ELSE IF usb_tok = "SETUP" THEN TRUE
            ELSE IF usb_tok = "IN" THEN in_response \/ should_stall
            ELSE IF usb_tok = "OUT" THEN out_response \/ should_stall
            ELSE FALSE
      [] stage = "SETUP" ->
            IF usb_setup /\ setup_data_stage
            THEN IF setup_is_in THEN in_response \/ should_stall
                 ELSE out_response \/ should_stall
            ELSE TRUE
      [] stage = "CONTROL_IN" ->
            IF usb_endp # 0 THEN FALSE
            ELSE IF usb_tok = "IN" THEN should_stall \/ (setup_empty /\ in_response)
            ELSE usb_tok = "OUT"
      [] stage = "CONTROL_OUT" ->
            IF usb_endp # 0 THEN FALSE
            ELSE IF usb_tok = "OUT" THEN should_stall \/ (setup_empty /\ out_response)
            ELSE IF usb_tok = "IN" THEN setup_empty
            ELSE FALSE
      [] stage \in {"WAIT_CONTROL_ACK_IN", "WAIT_CONTROL_ACK_OUT"} -> setup_empty
      [] stage = "IN" -> in_response \/ should_stall
      [] stage = "OUT" -> out_response \/ should_stall
      [] stage = "WAIT_DONE" -> TRUE
      [] OTHER -> FALSE

\* The stages in which the IN FIFO is wired to the transfer core.
in_routed ==
    \/ stage = "IN"
    \/ stage = "CONTROL_IN" /\ usb_endp = 0 /\ usb_tok = "IN"

usb_dtb ==
    CASE in_routed -> in_dtb
      [] stage \in {"WAIT_CONTROL_ACK_IN", "WAIT_CONTROL_ACK_OUT"} -> TRUE
      [] OTHER -> FALSE

data_send_have == in_routed /\ in_buf.readable

\* The core takes a byte in every cycle of its send phase in which one is
\* offered, and ends the data packet in the first cycle in which none is.
data_send_get == ev = "send" /\ data_send_have
usb_data_end == ev = "rx_end" \/ (ev = "send" /\ ~data_send_have)

data_out_advance == in_routed /\ data_send_get

\* The stages in which received bytes are routed to the OUT handler.
out_data_recv_put ==
    /\ data_recv_put
    /\ \/ stage = "OUT"
       \/ stage = "CONTROL_OUT" /\ usb_endp = 0 /\ usb_tok = "OUT"

setup_data_recv_put == stage = "SETUP" /\ data_recv_put

dtb_reset == stage = "SETUP"
setup_data_byte_ce == stage = "SETUP" /\ data_recv_put
setup_data_byte_rst == stage = "IDLE"
\* A variant that also counts the tokens CHECK_TOK cannot classify.
invalid_state_ce_check_tok ==
    \/ stage = "SETUP" /\ ~usb_setup /\ usb_end
    \/ stage = "CHECK_TOK" /\ ~usb_idle /\ usb_tok \notin {"SETUP", "IN", "OUT"}

invalid_state_ce == stage = "SETUP" /\ ~usb_setup /\ usb_end
ctrl_response == stage = "CONTROL_IN" /\ usb_endp = 0 /\ usb_tok = "OUT"

usb_core_reset == FALSE
UsbCoreReset == usb_error \/ usb_core_reset

(***************************************************************************)
(* Next state of the stage FSM (ResetInserter: usb_reset forces IDLE).     *)
(***************************************************************************)
NextStage ==
    IF usb_reset THEN "IDLE"
    ELSE CASE stage = "IDLE" -> IF usb_start THEN "CHECK_TOK" ELSE "IDLE"
           [] stage = "CHECK_TOK" ->
                IF usb_idle THEN "IDLE"
                ELSE IF usb_tok = "SETUP" THEN "SETUP"
                ELSE IF usb_tok = "IN" THEN "IN"
                ELSE IF usb_tok = "OUT" THEN "OUT"
                ELSE "IDLE"
           [] stage = "DEBUG" -> "IDLE"
           [] stage = "SETUP" ->
                IF usb_setup
                THEN IF setup_is_in
                     THEN IF setup_data_stage THEN "CONTROL_IN"
                          ELSE "WAIT_CONTROL_ACK_IN"
                     ELSE IF setup_data_stage THEN "CONTROL_OUT"
                          ELSE "WAIT_CONTROL_ACK_OUT"
                ELSE IF usb_end THEN "IDLE" ELSE "SETUP"
           [] stage = "CONTROL_IN" ->
                IF usb_endp = 0 /\ usb_tok = "OUT" THEN "WAIT_DONE" ELSE "CONTROL_IN"
           [] stage = "CONTROL_OUT" ->
                IF usb_endp = 0 /\ usb_tok = "IN" THEN "WAIT_DONE" ELSE "CONTROL_OUT"
           [] stage = "WAIT_CONTROL_ACK_IN" ->
                IF usb_end /\ setup_empty THEN "IDLE" ELSE "WAIT_CONTROL_ACK_IN"
           [] stage = "WAIT_CONTROL_ACK_OUT" ->
                IF usb_data_end /\ setup_empty THEN "IDLE" ELSE "WAIT_CONTROL_ACK_OUT"
           [] stage \in {"IN", "OUT", "WAIT_DONE"} ->
                IF usb_end THEN "IDLE" ELSE stage


(***************************************************************************)
(* Synchronous statements of TriEndpointInterface.                         *)
(***************************************************************************)
NextInvalidStates ==
    IF invalid_state_ce THEN Inc(invalid_states) ELSE invalid_states

NextSetupDataByte ==
    IF setup_data_byte_rst THEN 0
    ELSE IF setup_data_byte_ce THEN (setup_data_byte + 1) % 16
    ELSE setup_data_byte

NextSetupIsIn ==
    IF setup_data_byte_rst THEN FALSE
    ELSE IF setup_data_byte_ce /\ setup_data_byte = 0 THEN Bit(usb_payload, 7) = 1
    ELSE setup_is_in

NextSetupDataStage ==
    IF setup_data_byte_rst THEN FALSE
    ELSE IF setup_data_byte_ce /\ setup_data_byte \in {6, 7} /\ usb_payload # 0
    THEN TRUE
    ELSE setup_data_stage

\* NextValue(tok_waits, ...) lives in the stage FSM, so the FSM's
\* ResetInserter returns it to its reset value on usb_reset.
NextTokWaits ==
    IF usb_reset THEN 0
    ELSE IF stage = "CHECK_TOK" THEN Inc(tok_waits)
    ELSE tok_waits

NextErrorCount ==
    IF usb_error THEN Inc(error_count) ELSE error_count

Engine ==
    /\ stage' = NextStage
    /\ setup_data_byte' = NextSetupDataByte
    /\ setup_is_in' = NextSetupIsIn
    /\ setup_data_stage' = NextSetupDataStage
    /\ invalid_states' = NextInvalidStates
    /\ tok_waits' = NextTokWaits
    /\ error_count' = NextErrorCount

(***************************************************************************)
(* SetupHandler.                                                           *)
(***************************************************************************)
setup_buf_we == usb_tok = "SETUP" /\ setup_data_recv_put
setup_buf_re == csr_re = "setup_ctrl" /\ Bit(setup_ctrl, 0) = 1
\* A variant that keeps the unread bytes of the record before.
setup_token_seen_when_empty == check_reset /\ usb_tok = "SETUP" /\ setup_empty

setup_token_seen == check_reset /\ usb_tok = "SETUP"

\* The handler's event trigger.  It has three combinatorial drivers, and the
\* last assignment that executes wins: the one under ~usb_pullup comes first
\* and is always overridden by the handler's own, which the stage FSM in
\* turn overrides while the stage is SETUP.
setup_trigger ==
    IF stage = "SETUP" THEN usb_commit ELSE setup_buf.readable /\ usb_end

\* A variant in which the bus reset also clears the SETUP FIFO.
NextSetupBuf_bus_reset ==
    FifoStep(setup_buf, setup_buf_we, usb_payload, setup_buf_re,
             setup_buf_reset \/ usb_reset, SetupFifoDepth)

NextSetupBuf ==
    FifoStep(setup_buf, setup_buf_we, usb_payload, setup_buf_re, setup_buf_reset,
             SetupFifoDepth)

NextDataBytes ==
    IF setup_data_recv_put THEN (data_bytes + 1) % 8
    ELSE IF setup_token_seen THEN 0
    ELSE data_bytes

NextHaveDataStage ==
    IF setup_data_recv_put /\ usb_payload # 0 /\ data_bytes \in {6, 7} THEN TRUE
    ELSE IF setup_token_seen THEN FALSE
    ELSE have_data_stage

SetupHandler ==
    /\ check_reset' = usb_start
    /\ setup_epno' = IF setup_token_seen THEN usb_endp ELSE setup_epno
    /\ setup_buf_reset' = setup_token_seen
    /\ data_bytes' = NextDataBytes
    /\ have_data_stage' = NextHaveDataStage
    /\ setup_buf' = NextSetupBuf

(***************************************************************************)
(* InHandler.                                                              *)
(***************************************************************************)
in_ctrl_re == csr_re = "in_ctrl"
is_in_packet == usb_tok = "IN"
is_our_packet == usb_endp = epno

\* A variant that never flips a toggle.
NextDtbs_no_flip == IF dtb_reset THEN SetBit(dtbs, epno) ELSE dtbs

NextDtbs ==
    IF dtb_reset THEN SetBit(dtbs, epno)
    ELSE IF in_ctrl_re THEN dtbs
    ELSE IF usb_commit /\ usb_arm /\ ~usb_sta THEN FlipBit(dtbs, epno)
    ELSE dtbs

NextQueued ==
    IF dtb_reset THEN queued
    ELSE IF in_ctrl_re THEN ~reset_fifo
    ELSE IF usb_commit /\ is_in_packet /\ is_our_packet THEN FALSE
    ELSE queued

\* buf.reset of the IN FIFO is never driven.
NextInBuf ==
    FifoStep(in_buf, csr_re = "in_data", in_data, data_out_advance, FALSE,
             InFifoDepth)

InHandler ==
    /\ dtbs' = NextDtbs
    /\ queued' = NextQueued
    /\ in_buf' = NextInBuf

(***************************************************************************)
(* OutHandler.                                                             *)
(***************************************************************************)
out_ctrl_re == csr_re = "out_ctrl"
out_buf_re == Bit(out_ctrl, 0) = 1 /\ out_ctrl_re

NextHaveData ==
    IF out_ctrl_re THEN Bit(out_ctrl, 1) = 1 ELSE have_data

NextIsIdle ==
    IF usb_commit /\ out_buf.readable THEN TRUE
    ELSE IF out_data_recv_put THEN FALSE
    ELSE is_idle

NextOutBuf ==
    FifoStep(out_buf, out_data_recv_put, usb_payload, out_buf_re, FALSE,
             OutFifoDepth)

OutHandler ==
    /\ have_data' = NextHaveData
    /\ is_idle' = NextIsIdle
    /\ out_epno' = IF usb_tok = "OUT" THEN usb_endp ELSE out_epno
    /\ out_buf' = NextOutBuf


(***************************************************************************)
(* The CPU on the CSR bus: at most one register write completes per clock  *)
(* edge; storage holds the written value and the register's re strobe is   *)
(* high in the following cycle.                                            *)
(***************************************************************************)
CpuNone ==
    /\ csr_re' = "none"
    /\ UNCHANGED <<enable_out0, enable_out1, enable_in0, enable_in1, in_data,
                   in_ctrl, out_ctrl, setup_ctrl>>

CpuWriteEnableOut0 ==
    /\ "enable_out0" \in CpuRegs(workload)
    /\ \E v \in EnableVals : enable_out0' = v
    /\ csr_re' = "enable"
    /\ UNCHANGED <<enable_out1, enable_in0, enable_in1, in_data, in_ctrl, out_ctrl,
                   setup_ctrl>>

CpuWriteEnableIn0 ==
    /\ "enable_in0" \in CpuRegs(workload)
    /\ \E v \in EnableVals : enable_in0' = v
    /\ csr_re' = "enable"
    /\ UNCHANGED <<enable_out0, enable_out1, enable_in1, in_data, in_ctrl, out_ctrl,
                   setup_ctrl>>

\* The CPU keeps to the capacity of the IN FIFO (here: MaxInLen bytes).
CpuWriteInData ==
    /\ "in_data" \in CpuRegs(workload)
    /\ FifoLevel(in_buf) + (IF csr_re = "in_data" THEN 1 ELSE 0) < MaxInLen
    /\ \E b \in InBytes : in_data' = b
    /\ csr_re' = "in_data"
    /\ UNCHANGED <<enable_out0, enable_out1, enable_in0, enable_in1, in_ctrl,
                   out_ctrl, setup_ctrl>>

\* In the GET_DESCRIPTOR transfer the firmware arms endpoint 0 once for each
\* of its two packets, the second after the first has been taken.
CpuArms ==
    workload = "getdesc" =>
        /\ ~queued
        /\ csr_re # "in_ctrl"
        /\ Len(ctl_in) < 2

CpuWriteInCtrl ==
    /\ "in_ctrl" \in CpuRegs(workload)
    /\ CpuArms
    /\ \E e \in Endps, r \in {0, 1} :
         /\ workload = "getdesc" => e = 0 /\ r = 0
         /\ in_ctrl' = e + 16 * r
    /\ csr_re' = "in_ctrl"
    /\ UNCHANGED <<enable_out0, enable_out1, enable_in0, enable_in1, in_data,
                   out_ctrl, setup_ctrl>>

CpuWriteOutCtrl ==
    /\ "out_ctrl" \in CpuRegs(workload)
    /\ \E v \in 0..3 : out_ctrl' = v
    /\ csr_re' = "out_ctrl"
    /\ UNCHANGED <<enable_out0, enable_out1, enable_in0, enable_in1, in_data,
                   in_ctrl, setup_ctrl>>

CpuWriteSetupCtrl ==
    /\ "setup_ctrl" \in CpuRegs(workload)
    /\ setup_ctrl' = 1
    /\ csr_re' = "setup_ctrl"
    /\ UNCHANGED <<enable_out0, enable_out1, enable_in0, enable_in1, in_data,
                   in_ctrl, out_ctrl>>

Cpu ==
    \/ CpuNone
    \/ CpuWriteEnableOut0
    \/ CpuWriteEnableIn0
    \/ CpuWriteInData
    \/ CpuWriteInCtrl
    \/ CpuWriteOutCtrl
    \/ CpuWriteSetupCtrl

(***************************************************************************)
(* Observers (history of the run, read by no part of the design).          *)
(*   in_tags     for each byte in the IN FIFO, the endpoint the CPU armed  *)
(*               after writing it (-1: not armed yet)                      *)
(*   last_in     endpoint and toggle of the last IN transaction committed  *)
(*               in stage IN since the last toggle reset (<<>>: none)      *)
(*   out_drained the CPU popped the last byte of the OUT FIFO with a write *)
(*               that left ENABLE = 0 and has not written ENABLE = 1 since *)
(*   ctl_in      toggles of the IN transactions committed in stage         *)
(*               CONTROL_IN since the last SETUP packet                    *)
(***************************************************************************)
Retag(t, e) == [i \in DOMAIN t |-> IF t[i] = -1 THEN e ELSE t[i]]

NextInTags ==
    LET t1 == IF data_out_advance THEN Tail(in_tags) ELSE in_tags
        t2 == IF csr_re = "in_data" /\ Len(in_buf.mem) < InFifoDepth
              THEN Append(t1, -1) ELSE t1
    IN  IF in_ctrl_re /\ ~reset_fifo THEN Retag(t2, epno) ELSE t2

NextLastIn ==
    IF dtb_reset THEN <<>>
    ELSE IF usb_commit /\ is_in_packet /\ stage = "IN"
    THEN <<usb_endp, usb_dtb>>
    ELSE last_in

NextOutDrained ==
    IF out_ctrl_re /\ Bit(out_ctrl, 1) = 1 THEN FALSE
    ELSE IF out_buf_re /\ out_buf.readable /\ out_buf.mem = <<>>
            /\ ~out_data_recv_put
    THEN TRUE
    ELSE out_drained

NextCtlIn ==
    IF usb_setup THEN <<>>
    ELSE IF usb_commit /\ is_in_packet /\ stage = "CONTROL_IN"
    THEN Append(ctl_in, usb_dtb)
    ELSE ctl_in

Observers ==
    /\ workload' = workload
    /\ in_tags' = NextInTags
    /\ last_in' = NextLastIn
    /\ out_drained' = NextOutDrained
    /\ ctl_in' = NextCtlIn

(***************************************************************************)
(* The transfer core, seen at its interface: which event follows which.    *)
(***************************************************************************)
Response == IF usb_sta THEN "STALL" ELSE IF usb_arm THEN "ACK" ELSE "NAK"

CoreSet(e, t, p, py, r, k, i) ==
    /\ ev' = e
    /\ usb_tok' = t
    /\ usb_endp' = p
    /\ usb_payload' = py
    /\ resp' = r
    /\ pkt' = k
    /\ idx' = i

CoreGo(e) ==
    /\ CoreSet(e, usb_tok, usb_endp, 0, resp, pkt, idx)
    /\ UNCHANGED <<n_tokens, n_resets>>

CoreToIdle ==
    /\ CoreSet("idle", usb_tok, usb_endp, 0, "NONE", 0, 0)
    /\ UNCHANGED <<n_tokens, n_resets>>

CorePut(py, i) ==
    /\ CoreSet("put", usb_tok, usb_endp, py, resp, pkt, i)
    /\ UNCHANGED <<n_tokens, n_resets>>

\* A protocol error can strike in any cycle of a transaction.
CoreError ==
    /\ HostErrors(workload)
    /\ error_count < MaxErrors
    /\ CoreGo("error")

\* The bus can be reset in any cycle.
CoreBusReset ==
    /\ HostResets(workload)
    /\ n_resets < MaxResets
    /\ CoreSet("reset", usb_tok, usb_endp, 0, "NONE", 0, 0)
    /\ n_resets' = n_resets + 1
    /\ UNCHANGED n_tokens

(***************************************************************************)
(* The device address.  ADDRESS is a CSRStorage(7) in a ResetInserter      *)
(* whose reset is usb_reset; the stage FSM copies it to the core's addr in *)
(* every cycle of stage IDLE, and addr, a register of the FSM, is reset    *)
(* with it.  The CPU's bus carries one write per cycle.                    *)
(***************************************************************************)
NoWrite == -1

\* A variant in which the bus reset leaves the ADDRESS register alone.
NextAddress_no_reset(w) == IF w # NoWrite THEN w ELSE address

NextAddress(w) ==
    IF usb_reset THEN 0
    ELSE IF w # NoWrite THEN w
    ELSE address

NextAddr ==
    IF usb_reset THEN 0
    ELSE IF stage = "IDLE" THEN address
    ELSE addr

AddressRegs ==
    /\ \E w \in {NoWrite} \cup (IF "address" \in CpuRegs(workload) /\ csr_re' = "none"
                               THEN AddressVals ELSE {}) :
         /\ address' = NextAddress(w)
         /\ address_re' = (w # NoWrite)
    /\ addr' = NextAddr

\* Every register of the design takes its next value.
Clock ==
    Engine /\ SetupHandler /\ InHandler /\ OutHandler /\ Observers /\ Cpu
    /\ AddressRegs

(***************************************************************************)
(* One action per event of the transfer core.                              *)
(***************************************************************************)
Idle ==
    /\ ev = "idle"
    /\ Clock
    /\ \/ CoreGo("idle")
       \/ /\ CountsTokens(workload) => n_tokens < TokenBudget(workload)
          /\ CoreSet("start", usb_tok, usb_endp, 0, resp, pkt, idx)
          /\ n_tokens' = IF CountsTokens(workload) THEN n_tokens + 1
                         ELSE n_tokens
          /\ UNCHANGED n_resets
       \/ CoreError
       \/ CoreBusReset

\* The host's script of the GET_DESCRIPTOR transfer: the SETUP token, IN
\* tokens until it has taken two data packets, then the status OUT token.
HostSends(t, e) ==
    workload = "getdesc" =>
        /\ e = 0
        /\ t = IF n_tokens = 1 THEN "SETUP"
               ELSE IF Len(ctl_in) < 2 THEN "IN" ELSE "OUT"

\* The token is decoded: tok and endp are latched at this edge.
TokenStart ==
    /\ ev = "start"
    /\ Clock
    /\ \/ \E t \in {"IN", "OUT"} \cap HostTokens(workload), e \in Endps :
            /\ HostSends(t, e)
            /\ CoreSet("poll", t, e, 0, "NONE", 0, 0)
            /\ UNCHANGED <<n_tokens, n_resets>>
       \/ \E k \in HostSetups(workload) :
            /\ "SETUP" \in HostTokens(workload)
            /\ HostSends("SETUP", 0)
            /\ CoreSet("poll", "SETUP", 0, 0, "NONE", k, 0)
            /\ UNCHANGED <<n_tokens, n_resets>>
       \/ \E e \in Endps, n \in {"poll", "idle"} :
            /\ "SOF" \in HostTokens(workload)
            /\ CoreSet(n, "SOF", e, 0, "NONE", 0, 0)
            /\ UNCHANGED <<n_tokens, n_resets>>
       \/ CoreError
       \/ CoreBusReset

\* The core samples arm and sta and settles the handshake of the transaction.
PollResponse ==
    /\ ev = "poll"
    /\ Clock
    /\ \/ /\ usb_tok = "SOF"
          /\ CoreToIdle
       \/ /\ usb_tok \in {"IN", "OUT", "SETUP"}
          /\ CoreSet(IF Response # "ACK" THEN "abort"
                     ELSE IF usb_tok = "IN" THEN "send" ELSE "rx_wait",
                     usb_tok, usb_endp, 0, Response, pkt, 0)
          /\ UNCHANGED <<n_tokens, n_resets>>
       \/ CoreError
       \/ CoreBusReset

\* Between the token and the data packet of an accepted OUT or SETUP.
RecvWait ==
    /\ ev = "rx_wait"
    /\ Clock
    /\ \/ /\ usb_tok = "SETUP"
          /\ CorePut(SetupPackets[pkt][1], 0)
       \/ /\ usb_tok = "OUT"
          /\ MaxOutLen > 0
          /\ \E b \in OutBytes : CorePut(b, 0)
       \/ /\ usb_tok = "OUT"
          /\ CoreGo("rx_end")
       \/ /\ HostAborts(workload)
          /\ CoreGo("abort")
       \/ CoreError
       \/ CoreBusReset

\* A byte of the data packet is handed over (data_recv_put).
RecvData ==
    /\ ev = "put"
    /\ Clock
    /\ \/ /\ usb_tok = "SETUP"
          /\ idx + 1 < SetupLen
          /\ CorePut(SetupPackets[pkt][idx + 2], idx + 1)
       \/ /\ usb_tok = "SETUP"
          /\ idx + 1 = SetupLen
          /\ CoreGo("rx_end")
       \/ /\ usb_tok = "OUT"
          /\ idx + 1 < MaxOutLen
          /\ \E b \in OutBytes : CorePut(b, idx + 1)
       \/ /\ usb_tok = "OUT"
          /\ CoreGo("rx_end")
       \/ CoreError
       \/ CoreBusReset

\* The received data packet ends (data_end); the handshake follows.
RecvEnd ==
    /\ ev = "rx_end"
    /\ Clock
    /\ \/ CoreGo("commit")
       \/ /\ HostAborts(workload)
          /\ CoreGo("abort")
       \/ CoreError
       \/ CoreBusReset

\* The core sends the data packet of an accepted IN: a byte per cycle while
\* data_send_have, then data_end and the host's handshake.
SendData ==
    /\ ev = "send"
    /\ Clock
    /\ \/ /\ data_send_have
          /\ CoreGo("send")
       \/ /\ ~data_send_have
          /\ CoreGo("commit")
       \/ /\ ~data_send_have
          /\ CoreGo("abort")
       \/ CoreError
       \/ CoreBusReset

\* The transaction ends successfully (commit, end; setup after a SETUP).
Commit ==
    /\ ev = "commit"
    /\ Clock
    /\ \/ CoreToIdle
       \/ CoreBusReset

\* The transaction ends unsuccessfully (abort, end).
Abort ==
    /\ ev = "abort"
    /\ Clock
    /\ \/ CoreToIdle
       \/ CoreBusReset

\* The core signals a protocol error until it is reset.
Error ==
    /\ ev = "error"
    /\ Clock
    /\ IF UsbCoreReset THEN CoreToIdle ELSE CoreGo("error")

\* The bus is in reset (usb_reset).
BusReset ==
    /\ ev = "reset"
    /\ Clock
    /\ CoreToIdle

\* The registers after construction, the transfer core idle.
ResetState ==
    /\ stage = "IDLE"
    /\ setup_data_byte = 0
    /\ setup_is_in = FALSE
    /\ setup_data_stage = FALSE
    /\ invalid_states = 0
    /\ tok_waits = 0
    /\ error_count = 0
    /\ csr_re = "none"
    /\ address = 0
    /\ address_re = FALSE
    /\ addr = 0
    /\ in_data = 0
    /\ in_ctrl = 0
    /\ out_ctrl = 0
    /\ setup_ctrl = 0
    /\ setup_buf = EmptyFifo
    /\ setup_buf_reset = FALSE
    /\ check_reset = FALSE
    /\ setup_epno = 0
    /\ data_bytes = 0
    /\ have_data_stage = FALSE
    /\ dtbs = DtbsReset
    /\ queued = FALSE
    /\ in_buf = EmptyFifo
    /\ out_buf = EmptyFifo
    /\ have_data = FALSE
    /\ out_epno = 0
    /\ is_idle = TRUE
    /\ ev = "idle"
    /\ usb_payload = 0
    /\ resp = "NONE"
    /\ pkt = 0
    /\ idx = 0
    /\ n_tokens = 0
    /\ n_resets = 0
    /\ in_tags = <<>>
    /\ last_in = <<>>
    /\ out_drained = FALSE
    /\ ctl_in = <<>>

Init ==
    /\ ResetState
    /\ workload \in Workloads
    /\ usb_tok = "NONE"
    /\ usb_endp = 0
    /\ enable_out0 \in EnableOut0Init(workload)
    /\ enable_out1 = 0
    /\ enable_in0 \in EnableIn0Init(workload)
    /\ enable_in1 = 0

Next ==
    \/ Idle
    \/ TokenStart
    \/ PollResponse
    \/ RecvWait
    \/ RecvData
    \/ RecvEnd
    \/ SendData
    \/ Commit
    \/ Abort
    \/ Error
    \/ BusReset

Spec == Init /\ [][Next]_vars

(***************************************************************************)
(* A host that never stops: the firmware is silent, the host sends SETUP   *)
(* and IN tokens for as long as it likes.  The clock ticks on every step,  *)
(* so some action of the design is always taken.                           *)
(***************************************************************************)
InitLive ==
    /\ ResetState
    /\ workload = "live"
    /\ usb_tok = "NONE"
    /\ usb_endp = 0
    /\ enable_out0 = 255
    /\ enable_out1 = 0
    /\ enable_in0 = 255
    /\ enable_in1 = 0

NextLive ==
    \/ Idle
    \/ TokenStart
    \/ PollResponse
    \/ RecvWait
    \/ RecvData
    \/ RecvEnd
    \/ Commit
    \/ Abort

SpecLive == InitLive /\ [][NextLive]_vars /\ WF_vars(NextLive)

(***************************************************************************)
(* The stall policy on its own: should_stall is a combinational function   *)
(* of the latched token, the latched endpoint and the four enable          *)
(* registers.  Every endpoint number is covered here.                      *)
(***************************************************************************)
AllEndps == 0..(NumEndpoints - 1)
EnableBytes == {0, 1, 2, 4, 128, 255}

InitStall ==
    /\ ResetState
    /\ workload = "stall"
    /\ usb_tok \in Tokens
    /\ usb_endp \in AllEndps
    /\ enable_out0 \in EnableBytes
    /\ enable_out1 \in EnableBytes
    /\ enable_in0 \in EnableBytes
    /\ enable_in1 \in EnableBytes

\* The core latches another token.
StallLatchToken ==
    /\ \E t \in Tokens, e \in AllEndps :
         /\ usb_tok' = t
         /\ usb_endp' = e
    /\ UNCHANGED <<engine_vars, csr_vars, setup_vars, in_vars, out_vars,
                   ev, usb_payload, resp, pkt, idx, n_tokens, n_resets,
                   obs_vars, addr_vars>>

\* The CPU writes one of the enable registers.
StallWriteEnable ==
    /\ \E v \in EnableBytes :
         \/ enable_out0' = v /\ UNCHANGED <<enable_out1, enable_in0, enable_in1>>
         \/ enable_out1' = v /\ UNCHANGED <<enable_out0, enable_in0, enable_in1>>
         \/ enable_in0' = v /\ UNCHANGED <<enable_out0, enable_out1, enable_in1>>
         \/ enable_in1' = v /\ UNCHANGED <<enable_out0, enable_out1, enable_in0>>
    /\ UNCHANGED <<engine_vars, csr_re, in_data, in_ctrl, out_ctrl, setup_ctrl,
                   setup_vars, in_vars, out_vars, core_vars, obs_vars, addr_vars>>

\* The engine enters the stage of the latched IN or OUT token, or leaves it.
StallStage ==
    /\ stage' = IF stage = "IDLE" /\ usb_tok \in {"IN", "OUT"}
                THEN usb_tok ELSE "IDLE"
    /\ stage' # stage
    /\ UNCHANGED <<setup_data_byte, setup_is_in, setup_data_stage,
                   invalid_states, tok_waits, error_count, csr_vars,
                   setup_vars, in_vars, out_vars, core_vars, obs_vars,
                   addr_vars>>

NextStall == StallLatchToken \/ StallWriteEnable \/ StallStage

SpecStall == InitStall /\ [][NextStall]_vars


(***************************************************************************)
(* Properties.                                                             *)
(***************************************************************************)
\* The cycle in which the transfer core samples arm and stall for a token.
Polled(t) == ev = "poll" /\ usb_tok = t

\* C1, as stated: every SETUP token is answered with ACK (arm = 1,
\* stall = 0), whatever the stage of the engine and the FIFO occupancy.
C1_SetupAlwaysAcked == Polled("SETUP") => usb_arm /\ ~usb_sta

\* C2, as stated: an IN or OUT token to an endpoint and direction whose
\* enable bit is 0 is answered with STALL, whichever of the stages CHECK_TOK,
\* IN, OUT, CONTROL_IN, CONTROL_OUT, WAIT_CONTROL_ACK_IN/OUT and WAIT_DONE
\* handles it.
C2_DisabledIsStalled ==
    /\ Polled("IN") \/ Polled("OUT")
    /\ stage \in {"CHECK_TOK", "IN", "OUT", "CONTROL_IN", "CONTROL_OUT",
                  "WAIT_CONTROL_ACK_IN", "WAIT_CONTROL_ACK_OUT", "WAIT_DONE"}
    /\ should_stall
    => usb_sta

\* C3, as stated: from one committed IN transaction on an endpoint to the
\* next on the same endpoint the transmitted toggle alternates.
C3_ToggleAlternates ==
    /\ usb_commit
    /\ is_in_packet
    /\ stage = "IN"
    /\ last_in # <<>>
    /\ last_in[1] = usb_endp
    => usb_dtb # last_in[2]

\* C4, as stated: a byte the CPU enqueued and armed for endpoint A is never
\* transmitted in an IN transaction on another endpoint.
C4_NoMerge ==
    data_out_advance => Head(in_tags) \in {usb_endp, -1}

\* C5, as stated: once the CPU has drained the received OUT packet, every
\* OUT token is NAKed (out response 0, and arm 0 when the endpoint is
\* enabled) until the CPU writes OUT_CTRL.ENABLE = 1.
C5_DrainedOutNaked ==
    out_drained /\ Polled("OUT")
    => ~out_response /\ (~should_stall => ~usb_arm)

\* C5, amended: the same for the OUT tokens of stages CHECK_TOK and OUT and
\* the endpoint 0 OUT tokens of CONTROL_OUT; in the other control stages the
\* engine arms the core whatever the OUT handler's response is.
OutHandled ==
    /\ usb_tok = "OUT"
    /\ \/ stage \in {"CHECK_TOK", "OUT"}
       \/ stage = "CONTROL_OUT" /\ usb_endp = 0

C5_DrainedOutNakedWhenHandled ==
    out_drained /\ OutHandled
    => ~out_response /\ (~should_stall => ~usb_arm)

C5_Witness ==
    /\ out_drained
    /\ Polled("OUT")
    /\ stage = "CHECK_TOK"
    /\ ~should_stall
    /\ ~usb_arm


\* C6: in the GET_DESCRIPTOR transfer the engine goes IDLE -> CHECK_TOK ->
\* SETUP -> CONTROL_IN and ACKs the SETUP token; in CONTROL_IN it ACKs an IN
\* token exactly when the CPU has drained the SETUP FIFO and queued a packet,
\* never more than the two packets the CPU queued, the second with the
\* other toggle than the first; it ACKs the status OUT token and goes to
\* WAIT_DONE, and is in IDLE when that transaction has ended.
GetDescriptorStep ==
    /\ stage = "IDLE" /\ usb_start => stage' = "CHECK_TOK"
    /\ stage = "CHECK_TOK" /\ Polled("SETUP")
       => usb_arm /\ ~usb_sta /\ stage' = "SETUP"
    /\ stage = "SETUP" /\ usb_setup => stage' = "CONTROL_IN"
    /\ stage = "CONTROL_IN" /\ Polled("IN")
       => ~usb_sta /\ (usb_arm <=> queued /\ setup_empty)
    /\ stage = "CONTROL_IN" /\ usb_commit /\ is_in_packet /\ ctl_in # <<>>
       => usb_dtb # ctl_in[Len(ctl_in)]
    /\ Len(ctl_in') <= 2
    /\ stage = "CONTROL_IN" /\ Polled("OUT")
       => usb_arm /\ ~usb_sta /\ stage' = "WAIT_DONE"
    /\ stage = "WAIT_DONE" /\ usb_end => stage' = "IDLE"

C6_GetDescriptor == [][workload = "getdesc" => GetDescriptorStep]_vars

C6_Witness ==
    /\ workload = "getdesc"
    /\ stage = "WAIT_DONE"
    /\ usb_commit
    /\ usb_tok = "OUT"
    /\ Len(ctl_in) = 2
    /\ ctl_in[1] # ctl_in[2]
    /\ setup_empty

\* What a step without CPU access leaves of the FIFOs: the same bytes, and
\* readable if there are any.
FifoKept(f, g) ==
    /\ FifoBytes(g) = FifoBytes(f)
    /\ FifoBytes(f) # <<>> => g.readable

FifosKept ==
    csr_re = "none" /\ ~setup_buf_reset
    => /\ FifoKept(setup_buf, setup_buf')
       /\ FifoKept(in_buf, in_buf')
       /\ FifoKept(out_buf, out_buf')

BusResetInStage == usb_reset /\ stage # "IDLE"

C8_ErrorToIdle ==
    [][usb_error
       => /\ UsbCoreReset
          /\ error_count' = Inc(error_count)
          /\ stage' = "IDLE"]_vars

Unclassified == ~usb_idle /\ usb_tok \notin {"SETUP", "IN", "OUT"}

IsIn == IF usb_tok = "IN" THEN 1 ELSE 0

\* The bit of the enable bitmap (ENABLE_OUT0, ENABLE_OUT1, ENABLE_IN0,
\* ENABLE_IN1 from the least significant byte up) at index i.
EnableBit(i) ==
    CASE i \in 0..7 -> Bit(enable_out0, i)
      [] i \in 8..15 -> Bit(enable_out1, i - 8)
      [] i \in 16..23 -> Bit(enable_in0, i - 16)
      [] i \in 24..31 -> Bit(enable_in1, i - 24)

\* C10, as stated: should_stall is the negation of the enable bitmap's bit
\* at index 2 * E + is_IN.
C10_StallIndexInterleaved ==
    should_stall <=> EnableBit(2 * usb_endp + IsIn) = 0

\* C10, amended: should_stall is the negation of the enable bitmap's bit at
\* index E + 16 * is_IN: the OUT endpoints take bits 0..15, the IN endpoints
\* bits 16..31.
C10_StallIndexByDirection ==
    should_stall <=> EnableBit(usb_endp + NumEndpoints * IsIn) = 0

C10_Witness ==
    /\ usb_tok = "IN"
    /\ usb_endp = 9
    /\ enable_in1 = 2
    /\ enable_out0 = 0 /\ enable_out1 = 0 /\ enable_in0 = 0
    /\ ~should_stall

\* The enable bit the register documentation gives to a token of direction
\* t on endpoint e.
DocEnableBit(t, e) ==
    IF t = "IN"
    THEN IF e < 8 THEN Bit(enable_in0, e) ELSE Bit(enable_in1, e - 8)
    ELSE IF e < 8 THEN Bit(enable_out0, e) ELSE Bit(enable_out1, e - 8)

\* C11: bit i of enable_out0 / enable_out1 enables OUT endpoint i / 8 + i
\* and bit i of enable_in0 / enable_in1 enables IN endpoint i / 8 + i: for
\* an IN or OUT token should_stall is the negation of that bit, and the IN
\* and OUT stages stall the token exactly when the bit is 0.
C11_EnableRegisters ==
    usb_tok \in {"IN", "OUT"}
    => /\ should_stall <=> DocEnableBit(usb_tok, usb_endp) = 0
       /\ stage \in {"IN", "OUT"}
          => (usb_sta <=> DocEnableBit(usb_tok, usb_endp) = 0)

C11_Witness ==
    /\ stage = "OUT"
    /\ usb_tok = "OUT"
    /\ usb_endp = 10
    /\ enable_out1 = 4
    /\ enable_out0 = 255 /\ enable_in0 = 255 /\ enable_in1 = 0
    /\ ~usb_sta

\* C12: the In Handler's response is 1 exactly when the endpoint of the
\* current token is the endpoint the CPU wrote to IN_CTRL.EP and the queued
\* flag is set; for every other endpoint it is 0.
C12_InResponse ==
    in_response <=> (usb_endp = in_ctrl % 16 /\ queued)

C12_Witness ==
    /\ Polled("IN")
    /\ queued
    /\ in_ctrl % 16 = 1
    /\ usb_endp = 1
    /\ in_response

\* C13, as stated: a commit of a transaction that is not an IN transaction
\* on the armed endpoint leaves the queued flag and every toggle bit as they
\* are (steps with a CPU write to IN_CTRL or a toggle reset set aside).
C13_OtherCommitsKeepToggles ==
    [][/\ usb_commit
       /\ ~(is_in_packet /\ is_our_packet)
       /\ ~in_ctrl_re
       /\ ~dtb_reset
       => queued' = queued /\ dtbs' = dtbs]_vars

\* C14, as stated: the toggle vector starts as all ones, and the toggle bit
\* of endpoint E changes in a step only if the step is the commit of an IN
\* transaction on E or a toggle reset.
C14_ToggleChangesOnlyOnInCommit ==
    /\ dtbs = DtbsReset
    /\ [][\A e \in 0..(NumEndpoints - 1) :
            Bit(dtbs', e) # Bit(dtbs, e)
            => \/ usb_commit /\ is_in_packet /\ usb_endp = e
               \/ dtb_reset]_vars

\* C15, as stated: while the stage is SETUP for a SETUP token on endpoint E,
\* the toggle reset leaves the toggle bit of E at 1, whichever endpoint
\* IN_CTRL.EP names.
C15_ToggleResetOnSetupEndpoint ==
    [][dtb_reset /\ usb_tok = "SETUP" => Bit(dtbs', usb_endp) = 1]_vars

\* C16, as stated: the step in which a write of IN_CTRL with RESET = 1 takes
\* effect leaves the IN FIFO empty, so that none of the bytes written to
\* IN_DATA before it can be transmitted.
C16_ResetClearsInFifo ==
    [][in_ctrl_re /\ reset_fifo => FifoBytes(in_buf') = <<>>]_vars

SetupDataPhase ==
    usb_tok = "SETUP" /\ ev \in {"put", "rx_end", "commit"}

SetupHandedOver ==
    CASE ev = "put" -> idx
      [] ev \in {"rx_end", "commit"} -> idx + 1
      [] OTHER -> 0

Segment(s, j, n) == [i \in 1..(n + 1 - j) |-> s[i + j - 1]]

\* C18: from the first payload byte of a SETUP token on, the SETUP FIFO
\* holds bytes of that token only: what it holds is the payload handed over
\* so far less the bytes the CPU has popped, never a byte of the record
\* before.  Outside the write and the reset the FIFO changes by pops alone,
\* so the CPU pops bytes of the most recent SETUP token only.
C18_FreshSetupRecord ==
    /\ [](SetupDataPhase
          => \E j \in 1..(SetupHandedOver + 1) :
                FifoBytes(setup_buf)
                    = Segment(SetupPackets[pkt], j, SetupHandedOver))
    /\ [][~setup_buf_we /\ ~setup_buf_reset
          => \/ FifoBytes(setup_buf') = FifoBytes(setup_buf)
             \/ /\ setup_buf_re
                /\ FifoBytes(setup_buf) # <<>>
                /\ FifoBytes(setup_buf') = Tail(FifoBytes(setup_buf))]_vars

C18_Witness ==
    /\ usb_tok = "SETUP"
    /\ ev = "rx_wait"
    /\ setup_buf_reset
    /\ FifoBytes(setup_buf) # <<>>
    /\ n_tokens >= 2

\* C19, as stated: in whatever stage a SETUP token arrives, each byte of its
\* payload that the core hands over is written to the SETUP FIFO.
C19_EverySetupByteStored ==
    data_recv_put /\ usb_tok = "SETUP"
    => setup_buf_we /\ Len(setup_buf.mem) < SetupFifoDepth

\* C20, as stated: the Setup Handler's event trigger is raised in the cycle
\* a SETUP transaction commits and in no other cycle: not for an IN or OUT
\* transaction, not for a SETUP transaction that does not commit, not while
\* no transaction completes.
C20_TriggerPerCommittedSetup ==
    setup_trigger <=> (usb_commit /\ usb_tok = "SETUP")

\* C21, as stated: no step of any execution, a bus reset included, lowers
\* one of the diagnostic counters error_count, invalid_states, tok_waits.
C21_CountersMonotonic ==
    [][/\ error_count' >= error_count
       /\ invalid_states' >= invalid_states
       /\ tok_waits' >= tok_waits]_vars

\* C22, as stated: while transactions keep ending (the host keeps sending
\* tokens and the core keeps signalling their ends), the engine does not
\* stay in a stage other than IDLE for ever.
C22_AlwaysBackToIdle ==
    ([]<>usb_end) => ([]<>(stage = "IDLE"))

\* C23: a bus reset leaves the ADDRESS register and the core's addr at 0
\* whatever the CPU had written; ADDRESS changes by a reset or a CPU write
\* only, and addr by a reset or by the copy of ADDRESS the engine makes in
\* stage IDLE only; when the engine has left IDLE, addr is the value of
\* ADDRESS (but for a write that landed on the very edge the engine left).
C23_AddressResetWithBus ==
    /\ [][usb_reset => address' = 0 /\ addr' = 0]_vars
    /\ [][address' # address => usb_reset \/ address_re']_vars
    /\ [][addr' # addr
          => \/ usb_reset /\ addr' = 0
             \/ stage = "IDLE" /\ addr' = address]_vars
    /\ [](stage = "CHECK_TOK" /\ ~address_re => addr = address)

C23_Witness ==
    /\ usb_reset
    /\ address = 5
    /\ addr = 5
    /\ stage = "OUT"

\* The stage the payload p of a SETUP packet calls for: the direction is
\* bit 7 of byte 0, a data stage follows when byte 6 or byte 7 (wLength) is
\* not zero.
StageOfPayload(p) ==
    IF Bit(p[1], 7) = 1
    THEN IF p[7] # 0 \/ p[8] # 0 THEN "CONTROL_IN" ELSE "WAIT_CONTROL_ACK_IN"
    ELSE IF p[7] # 0 \/ p[8] # 0 THEN "CONTROL_OUT" ELSE "WAIT_CONTROL_ACK_OUT"

\* C24, as stated: when a SETUP transaction commits, the next stage is the
\* one its payload calls for, whatever earlier transactions left behind.
C24_StageFromPayload ==
    [][usb_setup => stage' = StageOfPayload(SetupPackets[pkt])]_vars

WaitControlAck == stage \in {"WAIT_CONTROL_ACK_IN", "WAIT_CONTROL_ACK_OUT"}

\* C25, as stated: in WAIT_CONTROL_ACK_IN and WAIT_CONTROL_ACK_OUT arm is
\* high and stall is 0 for as long as the FIFO still holds bytes.
C25_ArmHighUntilEmpty ==
    WaitControlAck /\ setup_buf.readable => usb_arm /\ ~usb_sta

\* C25, amended: in both stages stall is 0 and arm is high exactly when the
\* SETUP FIFO is empty, so the status token is NAKed while the CPU has
\* unread SETUP bytes; the engine returns to IDLE at the first transaction
\* end (WAIT_CONTROL_ACK_IN) or data end (WAIT_CONTROL_ACK_OUT) that finds
\* the SETUP FIFO empty, or on a bus reset, and stays where it is otherwise.
C25_ArmWhenSetupDrained ==
    /\ [](WaitControlAck => ~usb_sta /\ (usb_arm <=> ~setup_buf.readable))
    /\ [][stage = "WAIT_CONTROL_ACK_IN"
          => stage' = IF usb_reset \/ (usb_end /\ ~setup_buf.readable)
                      THEN "IDLE" ELSE stage]_vars
    /\ [][stage = "WAIT_CONTROL_ACK_OUT"
          => stage' = IF usb_reset \/ (usb_data_end /\ ~setup_buf.readable)
                      THEN "IDLE" ELSE stage]_vars

C25_Witness ==
    /\ stage = "WAIT_CONTROL_ACK_OUT"
    /\ Polled("IN")
    /\ setup_buf.readable
    /\ ~usb_arm

\* C26, as stated: when an OUT token is answered, the Out Handler's response
\* is 0 if the OUT FIFO holds undrained data or OUT_CTRL.ENABLE is not set,
\* and the first byte of an OUT packet is never written to the OUT FIFO
\* behind bytes of an earlier packet.
C26_NakWhileUndrained ==
    /\ Polled("OUT") /\ (FifoBytes(out_buf) # <<>> \/ Bit(out_ctrl, 1) = 0)
       => ~out_response
    /\ (out_data_recv_put /\ idx = 0) => FifoBytes(out_buf) = <<>>

\* A data-stage token of a control transfer on an enabled endpoint 0: an IN
\* token answered in CONTROL_IN or an OUT token answered in CONTROL_OUT.
DataStageToken ==
    /\ usb_endp = 0
    /\ ~should_stall
    /\ \/ stage = "CONTROL_IN" /\ Polled("IN")
       \/ stage = "CONTROL_OUT" /\ Polled("OUT")

\* C27: a data-stage token is never stalled, and it is armed exactly when
\* the SETUP FIFO is empty and the handler of its direction is ready; while
\* unread SETUP bytes remain it is NAKed even if the handler is ready.
C27_DataStageWaitsForDrain ==
    DataStageToken
    => /\ ~usb_sta
       /\ usb_arm <=> /\ ~setup_buf.readable
                      /\ IF usb_tok = "IN" THEN in_response ELSE out_response
       /\ setup_buf.readable => Response = "NAK"

C27_Witness ==
    /\ DataStageToken
    /\ stage = "CONTROL_IN"
    /\ in_response
    /\ setup_buf.readable
    /\ ~usb_arm

\* C28, as stated: the step in which a write of IN_CTRL with RESET = 0 takes
\* effect leaves the queued flag at 1, whatever the engine and the transfer
\* core do in that step.
C28_ArmNeverLost ==
    [][in_ctrl_re /\ ~reset_fifo => queued']_vars

\* C29, as stated: a byte is written to the OUT FIFO only in an OUT
\* transaction that the engine answered with ACK (arm = 1, stall = 0).
C29_StoredOnlyWhenAcked ==
    out_data_recv_put => usb_tok = "OUT" /\ resp = "ACK"

============================================================================
